---- MODULE Spec2Model ----
(***************************************************************************)
(* A model of the cancellable-call state hook (hooks/asyncresult.ts), of    *)
(* the endpoint invoker (lib/apiclient.ts: createAPIClient, makeApiCall    *)
(* and RequestContext) and of the Result helpers (lib/result.ts).          *)
(*                                                                         *)
(* The JavaScript event loop is modelled at the granularity the code       *)
(* depends on: a synchronous stretch of code is one action, every `await`  *)
(* is an action boundary, microtasks drain before the next timer fires and *)
(* zero-delay timers fire in the order they were registered.               *)
(***************************************************************************)
EXTENDS Integers, Sequences, FiniteSets, TLC

\* ------------------------------------------------------------------ bounds
\* number of call(fn) invocations made on one hook instance
MaxCalls == 3

Calls == 1..MaxCalls

\* ------------------------------------------------------- lib/result.ts
ok(value) == [ok |-> TRUE, value |-> value]

err(error) == [ok |-> FALSE, error |-> error]

\* `undefined`, as held by `result` before any Result is stored
Undefined == [undefined |-> TRUE]

\* the marker of a promise that has not settled yet
Pending == [pending |-> TRUE]

\* the marker of a promise rejected with the error `e`
Rejected(e) == [rejected |-> TRUE, error |-> e]

IsResult(x) == "ok" \in DOMAIN x

IsFailure(x) == IsResult(x) /\ ~x.ok

IsRejected(x) == "rejected" \in DOMAIN x

\* ------------------------------------------------- hooks/asyncresult.ts
VARIABLES
    loading,            \* useRefState(false): the ref's current value
    result,             \* useRefState(undefined): the ref's current value
    abortControllerRef, \* 0 for null, else the call whose `new AbortController()` it holds
    aborted,            \* aborted[i]: signal.aborted of the controller call i created
    reason,             \* reason[i]: signal.reason of that controller
    pc,                 \* pc[i]: where invocation i of call(fn) stands
    fnObserves,         \* fnObserves[i]: the fn passed to invocation i observes its signal
    timers,             \* the setTimeout(resolve) timers registered and not yet fired
    outcome,            \* history: outcome[i], what fn's promise settled to
    returned,           \* returned[i]: what the promise returned by call settled to
    unmounted,          \* the effect cleanup has run
    issued,             \* number of call(fn) invocations made so far
    writeLog,           \* history: the setResult/setLoading writes, in order
    prior,              \* history: prior[i], the call in flight when i was invoked (0: none)
    inflightAtUnmount   \* history: the calls in flight when the cleanup ran

hookVars == <<loading, result, abortControllerRef, aborted, reason, pc, fnObserves,
              timers, outcome, returned, unmounted, issued, writeLog, prior,
              inflightAtUnmount>>

\* lib/apiclient.ts: the invocations of the endpoint callables
VARIABLES
    headers,    \* RequestContext.headers of the client's requestContext
    fetchOptions, \* the fetchOptions createAPIClient was called with
    stage,      \* stage[r]: where invocation r of an endpoint callable stands
    endpt,      \* endpt[r]: the endpoint invoked
    declared,   \* declared[r]: the bodyContentType its declaration holds
    params,     \* params[r]: the parameter object it was invoked with
    request,    \* request[r]: the request handed to fetch, if any
    headersAt,  \* history: headersAt[r], the headers of the context when r was invoked
    abortedAt,  \* abortedAt[r]: the stage at which opts.abortSignal was aborted
    flight,     \* flight[f]: where request f of the client stands
    sent,       \* sent[f]: the headers object request f handed to fetch
    ctxAt,      \* history: ctxAt[f], the headers of the context when f was invoked
    lastAdded,  \* history: lastAdded[n], the value of the last addHeader of n, "none"
                \* when there was none or a removeHeader of n came after it
    raised,     \* history: raised[r], what fetch or response.text() rejected with, or "none"
    response,   \* response[r]: the Response fetch resolved to
    bodyText,   \* bodyText[r]: the text response.text() resolved to
    apiResult   \* apiResult[r]: what the promise returned by the callable resolved to

ctxVars == <<flight, sent, ctxAt, lastAdded>>

apiVars == <<headers, headersAt, fetchOptions, stage, endpt, declared, params, request, abortedAt,
             raised, response, bodyText, apiResult, ctxVars>>

\* lib/result.ts: one use of its functions
VARIABLES
    applied,    \* the function of result.ts applied: "none", "ok", "err", "wrap", "wrapAsync"
    arg,        \* its argument: a value, or what the function passed to it does
    made,       \* what it returned or the promise it returned resolved to
    got         \* what unwrap did with the Result made: returned or threw, and what

libVars == <<applied, arg, made, got>>

vars == <<hookVars, apiVars, libVars>>

NewRequestStarted == "new request started"

ComponentUnmounted == "component unmounted"

\* controller.abort() without an argument: the reason is a fresh AbortError
AbortError == "AbortError"

TickError == "abort still not completed after one tick"

InFlight == {i \in Calls : pc[i] = "inflight"}

Finished(i) == pc[i] \in {"done", "thrown"}

\* The settlements fn can produce. A fn that observes its signal resolves to a
\* failure Result once the signal is aborted; otherwise fn may resolve to a
\* success or a failure Result, or reject.
FnOutcomes(i) ==
    IF fnObserves[i] /\ aborted[i]
    THEN {err(<<"aborted", i>>)}
    ELSE {ok(<<"value", i>>), err(<<"error", i>>), Rejected(<<"raised", i>>)}

\* A fn that observes its signal settles in microtasks of the abort, which all
\* run before the next timer task.
MicrotasksPending == \E j \in Calls : pc[j] = "inflight" /\ fnObserves[j] /\ aborted[j]

\* abort(reason): abortControllerRef.current?.abort(reason); aborting an already
\* aborted signal changes nothing.
abort(r) ==
    IF abortControllerRef # 0 /\ ~aborted[abortControllerRef]
    THEN /\ aborted' = [aborted EXCEPT ![abortControllerRef] = TRUE]
         /\ reason' = [reason EXCEPT ![abortControllerRef] = r]
    ELSE UNCHANGED <<aborted, reason>>

\* The controller of call k can still be reached once abortControllerRef.current
\* is overwritten: only the fn it was passed to holds its signal, until it settles.
Reachable(k) == pc[k] = "inflight"

\* start without setResult(undefined)
startKeepResult(i) ==
    /\ abortControllerRef' = i
    /\ aborted' = [k \in Calls |-> k # i /\ Reachable(k) /\ aborted[k]]
    /\ reason' = [k \in Calls |-> IF k # i /\ Reachable(k) THEN reason[k] ELSE "none"]
    /\ UNCHANGED result
    /\ loading' = TRUE
    /\ pc' = [pc EXCEPT ![i] = "inflight"]
    /\ writeLog' = Append(writeLog, <<i, "reset">>)

\* call, lines 55-59: a new controller, which replaces the one the ref held, the
\* reset of result and loading, and fn invoked with the new controller's signal.
start(i) ==
    /\ abortControllerRef' = i
    /\ aborted' = [k \in Calls |-> k # i /\ Reachable(k) /\ aborted[k]]
    /\ reason' = [k \in Calls |-> IF k # i /\ Reachable(k) THEN reason[k] ELSE "none"]
    /\ result' = Undefined
    /\ loading' = TRUE
    /\ pc' = [pc EXCEPT ![i] = "inflight"]
    /\ writeLog' = Append(writeLog, <<i, "reset">>)

\* stillLoading with the check left out
stillLoadingNever == FALSE

\* call, line 51: the check made one tick after the abort
stillLoading == loading

\* what call(fn) does to the hook, lines 42-59 up to the first await
callHook(i, observes) ==
    /\ issued < MaxCalls
    /\ i = issued + 1
    /\ issued' = i
    /\ fnObserves' = [fnObserves EXCEPT ![i] = observes]
    /\ prior' = [prior EXCEPT ![i] = IF InFlight = {} THEN 0 ELSE CHOOSE j \in InFlight : TRUE]
    /\ IF loading
       THEN /\ abort(NewRequestStarted)
            /\ timers' = Append(timers, i)
            /\ pc' = [pc EXCEPT ![i] = "tick"]
            /\ UNCHANGED <<loading, result, abortControllerRef, writeLog>>
       ELSE /\ start(i)
            /\ UNCHANGED timers
    /\ UNCHANGED <<outcome, returned, unmounted, inflightAtUnmount>>

\* call(fn), lines 42-59 up to the first await: invocation number i, with a fn
\* that observes its signal or not.
call(i, observes) ==
    /\ callHook(i, observes)
    /\ UNCHANGED <<apiVars, libVars>>

\* callAfterTick with loading cleared when the error is thrown
callAfterTickClears(i) ==
    /\ timers # <<>>
    /\ Head(timers) = i
    /\ ~MicrotasksPending
    /\ timers' = Tail(timers)
    /\ IF stillLoading
       THEN /\ pc' = [pc EXCEPT ![i] = "thrown"]
            /\ returned' = [returned EXCEPT ![i] = Rejected(TickError)]
            /\ loading' = FALSE
            /\ UNCHANGED <<result, abortControllerRef, aborted, reason, writeLog>>
       ELSE /\ start(i)
            /\ UNCHANGED returned
    /\ UNCHANGED <<fnObserves, outcome, unmounted, issued, prior, inflightAtUnmount>>
    /\ UNCHANGED <<apiVars, libVars>>

\* what the resumption of call after its tick does to the hook, lines 50-59
callAfterTickHook(i) ==
    /\ timers # <<>>
    /\ Head(timers) = i
    /\ ~MicrotasksPending
    /\ timers' = Tail(timers)
    /\ IF stillLoading
       THEN /\ pc' = [pc EXCEPT ![i] = "thrown"]
            /\ returned' = [returned EXCEPT ![i] = Rejected(TickError)]
            /\ UNCHANGED <<loading, result, abortControllerRef, aborted, reason, writeLog>>
       ELSE /\ start(i)
            /\ UNCHANGED returned
    /\ UNCHANGED <<fnObserves, outcome, unmounted, issued, prior, inflightAtUnmount>>

\* call, lines 50-59: the timer of invocation i fires and call resumes
callAfterTick(i) ==
    /\ callAfterTickHook(i)
    /\ UNCHANGED <<apiVars, libVars>>

\* callSettle with a rejection of fn caught and stored as a failure
callSettleCatches(i, r) ==
    /\ pc[i] = "inflight"
    /\ r \in FnOutcomes(i)
    /\ result' = IF IsResult(r) THEN r ELSE err(r.error)
    /\ outcome' = [outcome EXCEPT ![i] = r]
    /\ returned' = [returned EXCEPT ![i] = IF IsResult(r) THEN r ELSE err(r.error)]
    /\ loading' = FALSE
    /\ pc' = [pc EXCEPT ![i] = "done"]
    /\ writeLog' = Append(writeLog, <<i, "settle">>)
    /\ UNCHANGED <<abortControllerRef, aborted, reason, fnObserves, timers, unmounted,
                   issued, prior, inflightAtUnmount>>
    /\ UNCHANGED <<apiVars, libVars>>

\* callSettle without the finally block
callSettleKeepLoading(i, r) ==
    /\ pc[i] = "inflight"
    /\ r \in FnOutcomes(i)
    /\ result' = IF IsResult(r) THEN r ELSE result
    /\ outcome' = [outcome EXCEPT ![i] = r]
    /\ returned' = [returned EXCEPT ![i] = r]
    /\ UNCHANGED loading
    /\ pc' = [pc EXCEPT ![i] = "done"]
    /\ writeLog' = Append(writeLog, <<i, "settle">>)
    /\ UNCHANGED <<abortControllerRef, aborted, reason, fnObserves, timers, unmounted,
                   issued, prior, inflightAtUnmount>>
    /\ UNCHANGED <<apiVars, libVars>>

\* what the resumption of call after `await fn(...)` does to the hook when fn
\* settled to r, lines 59-64
settleHook(i, r) ==
    /\ pc[i] = "inflight"
    /\ result' = IF IsResult(r) THEN r ELSE result
    /\ outcome' = [outcome EXCEPT ![i] = r]
    /\ returned' = [returned EXCEPT ![i] = r]
    /\ loading' = FALSE
    /\ pc' = [pc EXCEPT ![i] = "done"]
    /\ writeLog' = Append(writeLog, <<i, "settle">>)
    /\ UNCHANGED <<abortControllerRef, aborted, reason, fnObserves, timers, unmounted,
                   issued, prior, inflightAtUnmount>>

\* call, lines 59-64: fn's promise settles to r and call resumes; setResult runs
\* only when fn resolved, and the finally block always clears loading.
callSettle(i, r) ==
    /\ r \in FnOutcomes(i)
    /\ settleHook(i, r)
    /\ UNCHANGED <<apiVars, libVars>>

\* userAbort with the signal of every call in flight aborted and loading cleared
userAbortReset ==
    /\ aborted' = [k \in Calls |-> aborted[k] \/ pc[k] = "inflight" \/ k = abortControllerRef]
    /\ reason' = [k \in Calls |-> IF aborted'[k] /\ ~aborted[k] THEN AbortError ELSE reason[k]]
    /\ loading' = FALSE
    /\ UNCHANGED <<result, abortControllerRef, pc, fnObserves, timers, outcome,
                   returned, unmounted, issued, writeLog, prior, inflightAtUnmount>>
    /\ UNCHANGED <<apiVars, libVars>>

\* what abort() does to the hook, lines 38-40
userAbortHook ==
    /\ abort(AbortError)
    /\ UNCHANGED <<loading, result, abortControllerRef, pc, fnObserves, timers, outcome,
                   returned, unmounted, issued, writeLog, prior, inflightAtUnmount>>

\* the abort function the hook returns, invoked by its user without a reason
userAbort ==
    /\ userAbortHook
    /\ UNCHANGED <<apiVars, libVars>>

\* unmount with a cleanup that aborts nothing
unmountNoAbort ==
    /\ ~unmounted
    /\ unmounted' = TRUE
    /\ UNCHANGED <<aborted, reason>>
    /\ inflightAtUnmount' = InFlight
    /\ UNCHANGED <<loading, result, abortControllerRef, pc, fnObserves, timers, outcome,
                   returned, issued, writeLog, prior>>
    /\ UNCHANGED <<apiVars, libVars>>

\* what the cleanup does to the hook, lines 67-71
unmountHook ==
    /\ ~unmounted
    /\ unmounted' = TRUE
    /\ abort(ComponentUnmounted)
    /\ inflightAtUnmount' = InFlight
    /\ UNCHANGED <<loading, result, abortControllerRef, pc, fnObserves, timers, outcome,
                   returned, issued, writeLog, prior>>

\* the cleanup of the effect, lines 67-71
unmount ==
    /\ unmountHook
    /\ UNCHANGED <<apiVars, libVars>>

InitHook ==
    /\ loading = FALSE
    /\ result = Undefined
    /\ abortControllerRef = 0
    /\ aborted = [i \in Calls |-> FALSE]
    /\ reason = [i \in Calls |-> "none"]
    /\ pc = [i \in Calls |-> "idle"]
    /\ fnObserves = [i \in Calls |-> FALSE]
    /\ timers = <<>>
    /\ outcome = [i \in Calls |-> Pending]
    /\ returned = [i \in Calls |-> Pending]
    /\ unmounted = FALSE
    /\ issued = 0
    /\ writeLog = <<>>
    /\ prior = [i \in Calls |-> 0]
    /\ inflightAtUnmount = {}

NextHook ==
    \/ \E i \in Calls, observes \in BOOLEAN : call(i, observes)
    \/ \E i \in Calls : callAfterTick(i)
    \/ \E i \in Calls : \E r \in FnOutcomes(i) : callSettle(i, r)
    \/ userAbort
    \/ unmount


\* --------------------------------------------------------- lib/apiclient.ts
\* number of endpoint invocations made on one client instance
MaxRequests == 1

Requests == 1..MaxRequests

\* the requests a client has in flight at once
MaxFlights == 2

Flights == 1..MaxFlights

\* JSON scalars are kept by their type, which is all the schemas look at
Num == [type |-> "number"]

Str == [type |-> "string"]

JsonNull == [type |-> "null"]

Fields == {"status", "message", "name"}

JsonObjects == UNION {[S -> {Num, Str}] : S \in SUBSET Fields}

JsonValues == JsonObjects \cup {JsonNull}

IsObject(j) == "type" \notin DOMAIN j

\* a response body text: the serialisation of a JSON value, or text that is no JSON
JsonText(j) == [kind |-> "json", value |-> j]

Garbage == [kind |-> "garbage"]

BodyTexts == {JsonText(j) : j \in JsonValues} \cup {Garbage}

\* JSON.parse(bodyText): the value, or the SyntaxError it throws
JSONParse(text) ==
    IF text.kind = "json"
    THEN [thrown |-> FALSE, value |-> text.value]
    ELSE [thrown |-> TRUE, error |-> "SyntaxError"]

\* z.object({...}): the type each key must have
EmptySchema == [f \in {} |-> "number"]

baseResponseSchema == [status |-> "number", message |-> "string"]

\* the pieces of a path template: literal text and `{name}`
Lit(text) == [kind |-> "lit", text |-> text]

Token(name) == [kind |-> "token", text |-> name]

\* service/api.ts, endpointConfig (health, createProject), and the README's
\* getUser, whose path holds a token. A path is the sequence of its literal
\* pieces and tokens.
endpointConfig ==
    [health |->
        [method |-> "GET",
         path |-> <<Lit("/health")>>,
         responseSchema |-> EmptySchema,
         errorResponseSchema |-> [status |-> "number", message |-> "string"]],
     createProject |->
        [method |-> "POST",
         path |-> <<Lit("/project/create")>>,
         responseSchema |-> [status |-> "number", message |-> "string", name |-> "string"],
         errorResponseSchema |-> [status |-> "number", message |-> "string"]],
     getUser |->
        [method |-> "GET",
         path |-> <<Lit("/users/"), Token("userId")>>,
         responseSchema |-> [name |-> "string"],
         errorResponseSchema |-> [message |-> "string"]]]

Endpoints == DOMAIN endpointConfig

\* the issues zod raises for `json` against an object schema
Issues(schema, json) ==
    IF ~IsObject(json)
    THEN {<<"", "invalid_type">>}
    ELSE {<<f, "invalid_type">> :
              f \in {g \in DOMAIN schema : g \notin DOMAIN json \/ json[g].type # schema[g]}}

\* the output of an object schema: unknown keys are stripped
Strip(schema, json) == [f \in DOMAIN schema |-> json[f]]

\* AndParse with the right-hand schema left out
AndParseLeftOnly(left, right, json) ==
    IF Issues(left, json) # {}
    THEN [thrown |-> TRUE, issues |-> Issues(left, json)]
    ELSE [thrown |-> FALSE, value |-> Strip(left, json)]

\* left.and(right).parse(json): both sides are run; the issues of both are
\* thrown as one ZodError, else the two outputs are merged
AndParse(left, right, json) ==
    IF Issues(left, json) \cup Issues(right, json) # {}
    THEN [thrown |-> TRUE, issues |-> Issues(left, json) \cup Issues(right, json)]
    ELSE [thrown |-> FALSE,
          value |-> [f \in DOMAIN left \cup DOMAIN right |->
                        IF f \in DOMAIN left THEN Strip(left, json)[f]
                        ELSE Strip(right, json)[f]]]

\* ---- the parameter object and the request built from it, lines 132-180
\* JavaScript values of a parameter object, kept by what makeApiCall looks at:
\* typeof, instanceof Blob, truthiness and the string String.replace turns them into
StrValue == [typeof |-> "string", blob |-> FALSE, truthy |-> TRUE, string |-> "123"]

ZeroValue == [typeof |-> "number", blob |-> FALSE, truthy |-> FALSE, string |-> "0"]

BlobValue == [typeof |-> "object", blob |-> TRUE, truthy |-> TRUE, string |-> "[object Blob]"]

BigIntValue == [typeof |-> "bigint", blob |-> FALSE, truthy |-> TRUE, string |-> "5"]

ParamValues == {StrValue, ZeroValue, BlobValue, BigIntValue}

\* the keys of a parameter object, in the order `for (const key in params)` visits them
ParamOrder == <<"userId", "file">>

ParamNames == {ParamOrder[k] : k \in DOMAIN ParamOrder}

ParamObjects == UNION {[S -> ParamValues] : S \in SUBSET ParamNames}

NoParams == [k \in {} |-> StrValue]

\* enum BodyContentType, lines 303-306, the declaration's optional
\* bodyContentType, and a value outside the enum
Json == "json"

Multipart == "multipart"

OtherEncoding == "other"

NotDeclared == "undefined"

DeclaredEncodings == {NotDeclared, Json, Multipart, OtherEncoding}

\* createAPIClient, line 333: config.bodyContentType || BodyContentType.json,
\* where BodyContentType.json is 0 and so falsy itself
BodyContentTypeOf(decl) == IF decl \in {NotDeclared, Json} THEN Json ELSE decl

\* makeApiCall, lines 134-137: the replacement of one piece of the path,
\* (params as any)[paramName] || ""
SubstitutePiece(piece, p) ==
    IF piece.kind = "lit" THEN piece.text
    ELSE IF piece.text \in DOMAIN p /\ p[piece.text].truthy THEN p[piece.text].string
    ELSE ""

\* makeApiCall, lines 134-137: path.replace(/\{([^}]+)\}/g, ...)
Substitute(path, p) == [k \in DOMAIN path |-> SubstitutePiece(path[k], p)]

\* JSON.stringify(params), line 142, throws a TypeError on a BigInt
Serialisable(p) == \A k \in DOMAIN p : p[k].typeof # "bigint"

\* AllowedInMultipart with only the Blob test made
AllowedInMultipartAny(v) == TRUE

\* makeApiCall, lines 146-149: the values a multipart body takes
AllowedInMultipart(v) == v.blob \/ v.typeof = "string"

\* makeApiCall, lines 145-157: the first key, in iteration order, whose value a
\* multipart body does not take; "" when there is none
Offender(p) ==
    LET bad == {k \in DOMAIN ParamOrder :
                   ParamOrder[k] \in DOMAIN p /\ ~AllowedInMultipart(p[ParamOrder[k]])}
    IN  IF bad = {} THEN ""
        ELSE ParamOrder[CHOOSE k \in bad : \A l \in bad : k <= l]

\* header names and values
HeaderNames == {"X-Auth-Token", "Content-Type"}

HeaderValues == {"token", "text/plain"}

HeaderMaps == UNION {[S -> HeaderValues] : S \in SUBSET HeaderNames}

NoHeaders == [n \in {} |-> "token"]

\* RequestContext.getHeaders, lines 113-115
getHeaders == headers

\* RequestHeaders with a Content-Type of the context left in place
RequestHeadersKeep(enc) ==
    IF enc = Json
    THEN [n \in DOMAIN getHeaders \cup {"Content-Type"} |->
             IF n \in DOMAIN getHeaders THEN getHeaders[n] ELSE "application/json"]
    ELSE getHeaders

\* makeApiCall, lines 166-173: the entries of the headers of the request
RequestHeaders(enc) ==
    IF enc = Json
    THEN [n \in DOMAIN getHeaders \cup {"Content-Type"} |->
             IF n = "Content-Type" THEN "application/json" ELSE getHeaders[n]]
    ELSE getHeaders

\* HeadersObject with the object of the context itself handed on
HeadersObjectShared(enc) == [own |-> FALSE, entries |-> RequestHeaders(enc)]

\* RequestContext.getHeaders and makeApiCall, lines 113-115 and 166-168: the
\* headers object of the request is a copy ({...this.headers}, copied once
\* more), an object of its own
HeadersObject(enc) == [own |-> TRUE, entries |-> RequestHeaders(enc)]

\* credentials modes a caller can ask for in fetchOptions; Undefined when it gives none
CredentialsModes == {"omit", "same-origin", "include"}

NoRequest == [none |-> TRUE]

\* makeApiCall, lines 174-180: the request handed to fetch
Request(config, p, enc) ==
    [url |-> <<"http://localhost:3001/api">> \o Substitute(config.path, p),
     method |-> config.method,
     headers |-> HeadersObject(enc),
     credentials |-> "include",
     body |-> IF config.method # "GET" THEN [encoding |-> enc, of |-> p] ELSE Undefined]

\* the HTTP statuses the server answers with, and Response.statusText
Statuses == {200, 201, 404, 500}

StatusText(status) ==
    CASE status = 200 -> "OK"
      [] status = 201 -> "Created"
      [] status = 404 -> "Not Found"
      [] OTHER -> "Internal Server Error"

\* ResponseOk with the status not looked at
ResponseOkAlways(status) == TRUE

\* Response.ok
ResponseOk(status) == 200 <= status /\ status <= 299

\* the error classes, lines 33-93
FetchAPIError(fetchError) ==
    [apiClientErrorType |-> "FetchAPIError", fetchError |-> fetchError]

ParseAPIError(parseError, text) ==
    [apiClientErrorType |-> "ParseAPIError", parseError |-> parseError, bodyText |-> text]

SchemaAPIError(schemaErrors, bodyJSON) ==
    [apiClientErrorType |-> "SchemaAPIError", schemaErrors |-> schemaErrors,
     bodyJSON |-> bodyJSON]

ErrorResponseAPIError(message, status, body) ==
    [apiClientErrorType |-> "ErrorResponseAPIError", message |-> message,
     status |-> status, body |-> body]

RequestDataError(message) ==
    [apiClientErrorType |-> "RequestDataError", message |-> message]

NoResponse == [none |-> TRUE]

\* Decode with the body shape looked at before the status
DecodeShapeFirst(config, resp, text) ==
    LET parsed == JSONParse(text)
        bodyJSON == parsed.value
        asError == AndParse(config.errorResponseSchema, baseResponseSchema, bodyJSON)
        asBody == AndParse(config.responseSchema, baseResponseSchema, bodyJSON)
    IN  IF parsed.thrown
        THEN err(ParseAPIError(parsed.error, text))
        ELSE IF ~asBody.thrown
        THEN ok([status |-> resp.status, body |-> asBody.value])
        ELSE IF ~asError.thrown
        THEN err(ErrorResponseAPIError(resp.statusText, resp.status, asError.value))
        ELSE err(SchemaAPIError(asBody.issues, bodyJSON))

\* Decode with the status looked at before the body is parsed
DecodeStatusFirst(config, resp, text) ==
    LET parsed == JSONParse(text)
        bodyJSON == parsed.value
        asError == AndParse(config.errorResponseSchema, baseResponseSchema, bodyJSON)
        asBody == AndParse(config.responseSchema, baseResponseSchema, bodyJSON)
    IN  IF ~ResponseOk(resp.status)
        THEN IF parsed.thrown
             THEN err(ErrorResponseAPIError(resp.statusText, resp.status, text))
             ELSE IF asError.thrown
             THEN err(SchemaAPIError(asError.issues, bodyJSON))
             ELSE err(ErrorResponseAPIError(resp.statusText, resp.status, asError.value))
        ELSE IF parsed.thrown
        THEN err(ParseAPIError(parsed.error, text))
        ELSE IF asBody.thrown
             THEN err(SchemaAPIError(asBody.issues, bodyJSON))
             ELSE ok([status |-> resp.status, body |-> asBody.value])

\* makeApiCall, lines 199-256: from the body text to the Result
Decode(config, resp, text) ==
    LET parsed == JSONParse(text)
        bodyJSON == parsed.value
        asError == AndParse(config.errorResponseSchema, baseResponseSchema, bodyJSON)
        asBody == AndParse(config.responseSchema, baseResponseSchema, bodyJSON)
    IN  IF parsed.thrown
        THEN err(ParseAPIError(parsed.error, text))
        ELSE IF ~ResponseOk(resp.status)
        THEN IF asError.thrown
             THEN err(SchemaAPIError(asError.issues, bodyJSON))
             ELSE err(ErrorResponseAPIError(resp.statusText, resp.status, asError.value))
        ELSE IF asBody.thrown
             THEN err(SchemaAPIError(asBody.issues, bodyJSON))
             ELSE ok([status |-> resp.status, body |-> asBody.value])

\* createAPIClient, lines 312-350, called with the fetchOptions `opts` next to
\* the options it declares: it reads baseUrl, baseResponseSchema, endpointConfig
\* and requestContext only. A client is made before its callables are invoked.
createAPIClient(opts) ==
    /\ \A r \in Requests : stage[r] = "idle"
    /\ fetchOptions' = opts
    /\ UNCHANGED <<headers, headersAt, stage, endpt, declared, params, request, abortedAt, raised,
                   response, bodyText, apiResult>>
    /\ UNCHANGED <<hookVars, ctxVars, libVars>>

\* what the invocation of an endpoint callable does to the client and its
\* requests: createAPIClient lines 328-346, and makeApiCall up to
\* `await fetch(...)`, lines 118-180, or to one of its returns before it.
\* JSON.stringify(params), line 142, stands outside every try: what it throws
\* rejects the promise of the callable.
invokeApi(r, e, decl, p) ==
    LET config == endpointConfig[e]
        bodyContentType == BodyContentTypeOf(decl)
        dispatched == \/ bodyContentType = Json /\ Serialisable(p)
                      \/ bodyContentType = Multipart /\ Offender(p) = ""
    IN  /\ stage[r] = "idle"
        /\ \A q \in Requests : q < r => stage[q] # "idle"
        /\ endpt' = [endpt EXCEPT ![r] = e]
        /\ declared' = [declared EXCEPT ![r] = decl]
        /\ params' = [params EXCEPT ![r] = p]
        /\ headersAt' = [headersAt EXCEPT ![r] = headers]
        /\ IF dispatched
           THEN /\ request' = [request EXCEPT ![r] = Request(config, p, bodyContentType)]
                /\ stage' = [stage EXCEPT ![r] = "fetching"]
                /\ UNCHANGED apiResult
           ELSE /\ apiResult' = [apiResult EXCEPT ![r] =
                       IF bodyContentType = Json
                       THEN Rejected("TypeError")
                       ELSE IF bodyContentType = Multipart
                       THEN err(RequestDataError(
                                <<"Invalid multipart body data type for param", Offender(p)>>))
                       ELSE err(RequestDataError(
                                <<"Invalid body content type", bodyContentType>>))]
                /\ stage' = [stage EXCEPT ![r] = "done"]
                /\ UNCHANGED request
        /\ UNCHANGED <<headers, fetchOptions, abortedAt, raised, response, bodyText>>
        /\ UNCHANGED ctxVars

\* an endpoint callable is invoked by a caller of the client
invoke(r, e, decl, p) ==
    /\ invokeApi(r, e, decl, p)
    /\ UNCHANGED <<hookVars, libVars>>

\* the caller aborts the signal it passed as opts.abortSignal while the
\* invocation awaits fetch or response.text()
abortSignal(r) ==
    /\ stage[r] \in {"fetching", "reading"}
    /\ abortedAt[r] = "none"
    /\ abortedAt' = [abortedAt EXCEPT ![r] = stage[r]]
    /\ UNCHANGED <<headers, headersAt, fetchOptions, stage, endpt, declared, params, request, raised,
                   response, bodyText, apiResult>>
    /\ UNCHANGED <<hookVars, ctxVars, libVars>>

\* what a transport promise rejects with: the abort of its signal when the
\* signal is aborted, a network failure otherwise
Causes(r) == IF abortedAt[r] = "none" THEN {"TypeError"} ELSE {"AbortError"}

\* fetchRejects with the message of the cause kept in place of the cause
fetchRejectsMessageOnly(r, cause) ==
    /\ stage[r] = "fetching"
    /\ cause \in Causes(r)
    /\ raised' = [raised EXCEPT ![r] = cause]
    /\ apiResult' = [apiResult EXCEPT ![r] = err(FetchAPIError("Error making API call"))]
    /\ stage' = [stage EXCEPT ![r] = "done"]
    /\ UNCHANGED <<headers, headersAt, fetchOptions, endpt, declared, params, request, abortedAt,
                   response, bodyText>>
    /\ UNCHANGED <<hookVars, ctxVars, libVars>>

\* fetch rejects, lines 181-186
fetchRejects(r, cause) ==
    /\ stage[r] = "fetching"
    /\ cause \in Causes(r)
    /\ raised' = [raised EXCEPT ![r] = cause]
    /\ apiResult' = [apiResult EXCEPT ![r] = err(FetchAPIError(cause))]
    /\ stage' = [stage EXCEPT ![r] = "done"]
    /\ UNCHANGED <<headers, headersAt, fetchOptions, endpt, declared, params, request, abortedAt,
                   response, bodyText>>
    /\ UNCHANGED <<hookVars, ctxVars, libVars>>

\* fetch resolves with a Response, and makeApiCall runs up to
\* `await response.text()`, lines 174-189
fetchResolves(r, status) ==
    /\ stage[r] = "fetching"
    /\ abortedAt[r] = "none"
    /\ response' = [response EXCEPT ![r] = [status |-> status, statusText |-> StatusText(status)]]
    /\ stage' = [stage EXCEPT ![r] = "reading"]
    /\ UNCHANGED <<headers, headersAt, fetchOptions, endpt, declared, params, request, abortedAt,
                   raised, bodyText, apiResult>>
    /\ UNCHANGED <<hookVars, ctxVars, libVars>>

\* textRejects with the failure of the read told as one of the transport
textRejectsAsFetch(r, cause) ==
    /\ stage[r] = "reading"
    /\ cause \in Causes(r)
    /\ raised' = [raised EXCEPT ![r] = cause]
    /\ apiResult' = [apiResult EXCEPT ![r] = err(FetchAPIError(cause))]
    /\ stage' = [stage EXCEPT ![r] = "done"]
    /\ UNCHANGED <<headers, headersAt, fetchOptions, endpt, declared, params, request, abortedAt,
                   response, bodyText>>
    /\ UNCHANGED <<hookVars, ctxVars, libVars>>

\* response.text() rejects, lines 190-198
textRejects(r, cause) ==
    /\ stage[r] = "reading"
    /\ cause \in Causes(r)
    /\ raised' = [raised EXCEPT ![r] = cause]
    /\ apiResult' = [apiResult EXCEPT ![r] = err(ParseAPIError(cause, Undefined))]
    /\ stage' = [stage EXCEPT ![r] = "done"]
    /\ UNCHANGED <<headers, headersAt, fetchOptions, endpt, declared, params, request, abortedAt,
                   response, bodyText>>
    /\ UNCHANGED <<hookVars, ctxVars, libVars>>

\* response.text() resolves, and makeApiCall runs to its end, lines 189-256
textResolves(r, text) ==
    /\ stage[r] = "reading"
    /\ abortedAt[r] = "none"
    /\ bodyText' = [bodyText EXCEPT ![r] = text]
    /\ apiResult' = [apiResult EXCEPT ![r] = Decode(endpointConfig[endpt[r]], response[r], text)]
    /\ stage' = [stage EXCEPT ![r] = "done"]
    /\ UNCHANGED <<headers, headersAt, fetchOptions, endpt, declared, params, request, abortedAt,
                   raised, response>>
    /\ UNCHANGED <<hookVars, ctxVars, libVars>>

\* WithHeader with a name that is set already left as it is
WithHeaderKeepFirst(h, name, value) ==
    [n \in DOMAIN h \cup {name} |-> IF n \in DOMAIN h THEN h[n] ELSE value]

\* the headers `h` with `name` set to `value`
WithHeader(h, name, value) ==
    [n \in DOMAIN h \cup {name} |-> IF n = name THEN value ELSE h[n]]

\* the headers `h` without `name`
WithoutHeader(h, name) == [n \in DOMAIN h \ {name} |-> h[n]]

\* what a write of the context's headers object, leaving it as `h`, makes of
\* the headers objects handed to fetch: one that is the context's own object
\* changes with it
Written(h) ==
    [f \in Flights |->
        IF flight[f] # "idle" /\ ~sent[f].own THEN [sent[f] EXCEPT !.entries = h]
        ELSE sent[f]]

\* RequestContext.addHeader, lines 105-107
addHeader(name, value) ==
    /\ headers' = WithHeader(headers, name, value)
    /\ sent' = Written(headers')
    /\ lastAdded' = [lastAdded EXCEPT ![name] = value]
    /\ UNCHANGED <<flight, ctxAt>>
    /\ UNCHANGED <<headersAt, fetchOptions, stage, endpt, declared, params, request, abortedAt, raised,
                   response, bodyText, apiResult>>
    /\ UNCHANGED <<hookVars, libVars>>

\* RequestContext.removeHeader, lines 109-111
removeHeader(name) ==
    /\ headers' = WithoutHeader(headers, name)
    /\ sent' = Written(headers')
    /\ lastAdded' = [lastAdded EXCEPT ![name] = "none"]
    /\ UNCHANGED <<flight, ctxAt>>
    /\ UNCHANGED <<headersAt, fetchOptions, stage, endpt, declared, params, request, abortedAt, raised,
                   response, bodyText, apiResult>>
    /\ UNCHANGED <<hookVars, libVars>>

\* a json-encoded endpoint callable is invoked and makeApiCall hands its
\* request to fetch, lines 164-180
dispatch(f) ==
    /\ flight[f] = "idle"
    /\ \A g \in Flights : g < f => flight[g] # "idle"
    /\ flight' = [flight EXCEPT ![f] = "inflight"]
    /\ sent' = [sent EXCEPT ![f] = HeadersObject(Json)]
    /\ ctxAt' = [ctxAt EXCEPT ![f] = headers]
    /\ UNCHANGED lastAdded
    /\ UNCHANGED <<headers, headersAt, fetchOptions, stage, endpt, declared, params, request, abortedAt,
                   raised, response, bodyText, apiResult>>
    /\ UNCHANGED <<hookVars, libVars>>

\* the fetch of request f settles, lines 174-186
settle(f) ==
    /\ flight[f] = "inflight"
    /\ flight' = [flight EXCEPT ![f] = "done"]
    /\ UNCHANGED <<sent, ctxAt, lastAdded>>
    /\ UNCHANGED <<headers, headersAt, fetchOptions, stage, endpt, declared, params, request, abortedAt,
                   raised, response, bodyText, apiResult>>
    /\ UNCHANGED <<hookVars, libVars>>

\* service/api.ts, lines 16-46: the requestContext of the client holds the
\* auth token header only when localStorage holds a token, and the client is
\* made with fetchOptions {credentials: "include"}
InitApi ==
    /\ headers = NoHeaders
    /\ fetchOptions = [credentials |-> "include"]
    /\ stage = [r \in Requests |-> "idle"]
    /\ endpt = [r \in Requests |-> "health"]
    /\ declared = [r \in Requests |-> NotDeclared]
    /\ params = [r \in Requests |-> NoParams]
    /\ request = [r \in Requests |-> NoRequest]
    /\ headersAt = [r \in Requests |-> NoHeaders]
    /\ abortedAt = [r \in Requests |-> "none"]
    /\ raised = [r \in Requests |-> "none"]
    /\ response = [r \in Requests |-> NoResponse]
    /\ bodyText = [r \in Requests |-> Undefined]
    /\ apiResult = [r \in Requests |-> Pending]
    /\ flight = [f \in Flights |-> "idle"]
    /\ sent = [f \in Flights |-> NoRequest]
    /\ ctxAt = [f \in Flights |-> NoHeaders]
    /\ lastAdded = [n \in HeaderNames |-> "none"]

\* the transport causes of the model
TransportCauses == {"TypeError", "AbortError"}

\* the endpoints of service/api.ts, invoked as their declarations and schemas
\* have them invoked: no bodyContentType declared, and a parameter object that
\* JSON.stringify takes
NextApi ==
    \/ \E r \in Requests, e \in {"health", "createProject"} : invoke(r, e, NotDeclared, NoParams)
    \/ \E r \in Requests : abortSignal(r)
    \/ \E r \in Requests, cause \in TransportCauses : fetchRejects(r, cause)
    \/ \E r \in Requests, status \in Statuses : fetchResolves(r, status)
    \/ \E r \in Requests, cause \in TransportCauses : textRejects(r, cause)
    \/ \E r \in Requests, text \in BodyTexts : textResolves(r, text)

\* the requests of the GET and the POST endpoint of service/api.ts, json and
\* multipart, on a context whose headers are written
NextSend ==
    \/ \E name \in HeaderNames, value \in HeaderValues : addHeader(name, value)
    \/ \E name \in HeaderNames : removeHeader(name)
    \/ \E r \in Requests, e \in {"health", "createProject"}, decl \in {NotDeclared, Multipart} :
           invoke(r, e, decl, NoParams)

\* the shared RequestContext and the requests made while it is written
NextCtx ==
    \/ \E name \in HeaderNames, value \in HeaderValues : addHeader(name, value)
    \/ \E name \in HeaderNames : removeHeader(name)
    \/ \E f \in Flights : dispatch(f)
    \/ \E f \in Flights : settle(f)

\* the building of the request: every declared encoding and parameter object,
\* on a client made with any fetchOptions
NextReq ==
    \/ \E c \in CredentialsModes : createAPIClient([credentials |-> c])
    \/ \E r \in Requests, e \in Endpoints, decl \in DeclaredEncodings, p \in ParamObjects :
           invoke(r, e, decl, p)

\* ------------------------------------------ hooks/apicall.ts: useAPICall
\* the endpoint callable a useAPICall instance is bound to
method == "createProject"

\* the calls of useAPICall that are followed
MaxApiCalls == 2

\* the request of the call in flight, 0 when there is none: the hook has one
\* fn in flight at a time, and the invocation a settled fn made is forgotten
CurrentRequest ==
    LET invoked == {r \in Requests : stage[r] # "idle"}
    IN  IF invoked = {} THEN 0 ELSE CHOOSE r \in invoked : \A q \in invoked : q <= r

\* the request a fn that is invoked makes: the first one not in use
FreeRequest == CHOOSE r \in Requests : stage[r] = "idle" /\ \A q \in Requests : q < r => stage[q] # "idle"

\* the invocation r of the endpoint callable is over and its promise has been
\* awaited: nothing holds its request, Response or Result any more
release(r) ==
    /\ stage' = [stage EXCEPT ![r] = "idle"]
    /\ endpt' = [endpt EXCEPT ![r] = "health"]
    /\ declared' = [declared EXCEPT ![r] = NotDeclared]
    /\ params' = [params EXCEPT ![r] = NoParams]
    /\ request' = [request EXCEPT ![r] = NoRequest]
    /\ headersAt' = [headersAt EXCEPT ![r] = NoHeaders]
    /\ abortedAt' = [abortedAt EXCEPT ![r] = "none"]
    /\ raised' = [raised EXCEPT ![r] = "none"]
    /\ response' = [response EXCEPT ![r] = NoResponse]
    /\ bodyText' = [bodyText EXCEPT ![r] = Undefined]
    /\ apiResult' = [apiResult EXCEPT ![r] = Pending]
    /\ UNCHANGED <<headers, fetchOptions, ctxVars>>

\* forwardSignal with the signal not handed to the endpoint callable
forwardSignalDropped == UNCHANGED apiVars

\* useAPICall, lines 182-184: fn hands its abortSignal to the endpoint callable
\* as opts.abortSignal, so an abort of the hook that aborts the signal of the
\* call in flight aborts the signal of its request
forwardSignal ==
    IF /\ abortControllerRef # 0
       /\ ~aborted[abortControllerRef]
       /\ pc[abortControllerRef] = "inflight"
       /\ CurrentRequest # 0
       /\ stage[CurrentRequest] \in {"fetching", "reading"}
    THEN /\ abortedAt' = [abortedAt EXCEPT ![CurrentRequest] = stage[CurrentRequest]]
         /\ UNCHANGED <<headers, headersAt, fetchOptions, stage, endpt, declared, params,
                        request, raised, response, bodyText, apiResult, ctxVars>>
    ELSE UNCHANGED apiVars

\* call(params) of useAPICall, lines 179-185: call of the hook with a fn that
\* invokes the endpoint callable; it runs up to the first await of either
apiCall(i) ==
    /\ issued < MaxApiCalls
    /\ callHook(i, TRUE)
    /\ IF loading
       THEN forwardSignal
       ELSE invokeApi(FreeRequest, method, NotDeclared, NoParams)
    /\ UNCHANGED libVars

\* the timer of invocation i fires, call resumes and, unless it throws, invokes
\* fn and with it the endpoint callable
apiCallAfterTick(i) ==
    /\ callAfterTickHook(i)
    /\ IF stillLoading
       THEN UNCHANGED apiVars
       ELSE invokeApi(FreeRequest, method, NotDeclared, NoParams)
    /\ UNCHANGED libVars

\* the promise of the endpoint callable has resolved: fn resolves to its
\* Result and call resumes, lines 182-184 and asyncresult.ts lines 59-64
apiSettle(i) ==
    /\ CurrentRequest # 0
    /\ stage[CurrentRequest] = "done"
    /\ settleHook(i, apiResult[CurrentRequest])
    /\ release(CurrentRequest)
    /\ UNCHANGED libVars

\* abort() of useAPICall, which is the abort of the hook
apiAbort ==
    /\ userAbortHook
    /\ forwardSignal
    /\ UNCHANGED libVars

\* the component that uses useAPICall is unmounted
apiUnmount ==
    /\ unmountHook
    /\ forwardSignal
    /\ UNCHANGED libVars

\* the answers of the server told apart by the hook's user: a success, a
\* failure status, a body that is no JSON
AnswerStatuses == {200, 404}

AnswerTexts ==
    {Garbage, JsonText([status |-> Num, message |-> Str, name |-> Str])}

NextApiCall ==
    \/ \E i \in Calls : apiCall(i)
    \/ \E i \in Calls : apiCallAfterTick(i)
    \/ \E i \in Calls : apiSettle(i)
    \/ apiAbort
    \/ apiUnmount
    \/ \E r \in Requests, cause \in TransportCauses : fetchRejects(r, cause)
    \/ \E r \in Requests, status \in AnswerStatuses : fetchResolves(r, status)
    \/ \E r \in Requests, cause \in TransportCauses : textRejects(r, cause)
    \/ \E r \in Requests, text \in AnswerTexts : textResolves(r, text)

\* ------------------------------------------------------- lib/result.ts
\* the values a function returns or throws
MaxValue == 3

Plain == {Undefined} \cup {[n |-> k] : k \in 1..MaxValue}

\* a Result is a value as well
Values == Plain \cup {ok(v) : v \in Plain} \cup {err(v) : v \in Plain}

\* what a call of a function does, and what unwrap does
Returns(v) == [does |-> "returns", what |-> v]

Throws(e) == [does |-> "throws", what |-> e]

\* what the promise of an async function does
Resolves(v) == [does |-> "resolves", what |-> v]

Rejects(e) == [does |-> "rejects", what |-> e]

\* the functions passed to wrap, and to wrapAsync: one of these also throws
\* before it returns its promise
Functions == {Returns(v) : v \in Values} \cup {Throws(v) : v \in Values}

AsyncFunctions ==
    {Resolves(v) : v \in Values} \cup {Rejects(v) : v \in Values}
        \cup {Throws(v) : v \in Values}

NotRun == [does |-> "nothing", what |-> Undefined]

\* wrap without its catch
wrapNoCatch(fn) == IF fn.does = "returns" THEN ok(fn.what) ELSE fn

\* wrap, lines 28-34
wrap(fn) == IF fn.does = "returns" THEN ok(fn.what) ELSE err(fn.what)

\* wrapAsync, lines 39-47, once the promise of fn has settled, or fn has thrown
wrapAsync(fn) == IF fn.does = "resolves" THEN ok(fn.what) ELSE err(fn.what)

\* unwrap with the error returned
unwrapReturning(res) ==
    IF res.ok THEN Returns(res.value) ELSE Returns(res.error)

\* unwrap, lines 52-58
unwrap(res) ==
    IF res.ok THEN Returns(res.value) ELSE Throws(res.error)

\* ok(value) is called
okCall(value) ==
    /\ applied = "none"
    /\ applied' = "ok"
    /\ arg' = value
    /\ made' = ok(value)
    /\ UNCHANGED got
    /\ UNCHANGED <<hookVars, apiVars>>

\* err(error) is called
errCall(error) ==
    /\ applied = "none"
    /\ applied' = "err"
    /\ arg' = error
    /\ made' = err(error)
    /\ UNCHANGED got
    /\ UNCHANGED <<hookVars, apiVars>>

\* wrap(fn) is called
wrapCall(fn) ==
    /\ applied = "none"
    /\ applied' = "wrap"
    /\ arg' = fn
    /\ made' = wrap(fn)
    /\ UNCHANGED got
    /\ UNCHANGED <<hookVars, apiVars>>

\* wrapAsync(fn) is called and runs up to its await; an fn that throws before
\* returning its promise is caught at once, lines 42-46
wrapAsyncCall(fn) ==
    /\ applied = "none"
    /\ applied' = "wrapAsync"
    /\ arg' = fn
    /\ made' = IF fn.does = "throws" THEN wrapAsync(fn) ELSE Pending
    /\ UNCHANGED got
    /\ UNCHANGED <<hookVars, apiVars>>

\* the promise of fn settles and wrapAsync runs to its end, lines 43-46
wrapAsyncSettle ==
    /\ applied = "wrapAsync"
    /\ made = Pending
    /\ made' = wrapAsync(arg)
    /\ UNCHANGED <<applied, arg, got>>
    /\ UNCHANGED <<hookVars, apiVars>>

\* unwrap is called with the Result made
unwrapCall ==
    /\ applied # "none"
    /\ IsResult(made)
    /\ got = NotRun
    /\ got' = unwrap(made)
    /\ UNCHANGED <<applied, arg, made>>
    /\ UNCHANGED <<hookVars, apiVars>>

InitLib ==
    /\ applied = "none"
    /\ arg = Undefined
    /\ made = Pending
    /\ got = NotRun

NextLib ==
    \/ \E value \in Values : okCall(value)
    \/ \E error \in Values : errCall(error)
    \/ \E fn \in Functions : wrapCall(fn)
    \/ \E fn \in AsyncFunctions : wrapAsyncCall(fn)
    \/ wrapAsyncSettle
    \/ unwrapCall

Init == InitHook /\ InitApi /\ InitLib

\* the hook on its own
SpecHook == Init /\ [][NextHook]_vars

\* the endpoint invoker on its own
SpecApi == Init /\ [][NextApi]_vars

\* the functions of lib/result.ts
SpecLib == Init /\ [][NextLib]_vars

\* the RequestContext of a client and the requests in flight
SpecCtx == Init /\ [][NextCtx]_vars

\* useAPICall bound to an endpoint callable
SpecApiCall == Init /\ [][NextApiCall]_vars

\* the same, where a transport promise whose signal is aborted rejects and the
\* continuations of settled promises run: fetch rejects an aborted request,
\* and the job queue is always emptied
FairApiCall ==
    /\ SpecApiCall
    /\ \A r \in Requests : WF_vars(fetchRejects(r, "AbortError"))
    /\ \A r \in Requests : WF_vars(textRejects(r, "AbortError"))
    /\ \A i \in Calls : WF_vars(apiSettle(i))

\* the headers and the body of the requests dispatched
SpecSend == Init /\ [][NextSend]_vars

\* the endpoint invoker up to the dispatch of the request
SpecReq == Init /\ [][NextReq]_vars

\* ------------------------------------------------------------ properties
Issued == 1..issued

\* every fn passed so far observes its signal, so settles within the tick of an abort
AllObserve == \A i \in Issued : fnObserves[i]

AllFinished == issued > 0 /\ \A i \in Issued : Finished(i)

Superseded(i) == \E j \in Calls : prior[j] = i

\* C1: call(f2) invoked while call(f1) is in flight: once both invocations have
\* finished, f2 was run, `result` holds the Result f2 produced and not the one f1
\* produced. Stated for two invocations directly following one another, with no
\* third invocation made.
C1_SecondCallWins ==
    \A i \in Calls, j \in Calls :
        (j = i + 1 /\ issued = j /\ prior[j] = i /\ Finished(i) /\ Finished(j))
            => /\ pc[j] = "done"
               /\ IsResult(outcome[j]) => result = outcome[j]
               /\ result # outcome[i]

\* the calls whose fn is in flight holding a signal that has not been aborted
LiveTokens == {i \in Calls : pc[i] = "inflight" /\ ~aborted[i]}

\* C2: at most one wrapped function is in flight holding a signal that has not
\* been aborted.
C2_OneLiveToken == Cardinality(LiveTokens) <= 1

C2_Witness ==
    \E i \in Calls, j \in Calls :
        /\ prior[j] = i
        /\ pc[i] = "done"
        /\ IsFailure(outcome[i])
        /\ LiveTokens = {j}

\* C3: the writes of a call are never interleaved with those of another: once a
\* later call has written (its reset), no call that wrote before writes again.
C3_NoWriteAfterSuperseded ==
    \A o \in DOMAIN writeLog, p \in DOMAIN writeLog, q \in DOMAIN writeLog :
        (o < p /\ p < q /\ writeLog[o][1] # writeLog[p][1])
            => writeLog[q][1] # writeLog[o][1]

C3_Witness ==
    \E i \in Calls, j \in Calls :
        /\ prior[j] = i
        /\ writeLog = <<<<i, "reset">>, <<i, "settle">>, <<j, "reset">>, <<j, "settle">>>>

\* C4: when every fn settles within the tick of its abort, the most recently
\* issued invocation is the one whose fn is run and whose Result ends up in
\* `result`, once every invocation has finished.
C4_LatestWins ==
    (AllObserve /\ AllFinished)
        => /\ pc[issued] = "done"
           /\ IsResult(outcome[issued]) => result = outcome[issued]

\* C5: call raises the one-tick error only when the call that was in flight at
\* its invocation is still unsettled at the tick, and never when every fn
\* settles within the tick of its abort.
C5_RaisesOnlyIfPriorUnsettled ==
    [][\A i \in Calls :
          (pc[i] = "tick" /\ pc'[i] = "thrown")
             => /\ prior[i] # 0
                /\ pc[prior[i]] = "inflight"
                /\ ~AllObserve]_vars

\* C6 as claimed: the cleanup leaves the signal of every call in flight aborted
\* with the reason 'component unmounted', and an observing fn in flight at the
\* cleanup resolves to a failure Result.
C6_UnmountReasonAlways ==
    [][(~unmounted /\ unmounted')
          => \A i \in InFlight : aborted'[i] /\ reason'[i] = ComponentUnmounted]_vars

\* C6 as amended: the cleanup leaves the signal of every call in flight
\* aborted; its reason is 'component unmounted' unless the signal had been
\* aborted before, in which case the earlier reason stands; and an observing fn
\* that was in flight at the cleanup resolves to a failure Result, which is what
\* its settlement then stores.
C6_UnmountAborts ==
    [][/\ (~unmounted /\ unmounted')
             => \A i \in InFlight :
                    /\ aborted'[i]
                    /\ ~aborted[i] => reason'[i] = ComponentUnmounted
                    /\ aborted[i] => reason'[i] = reason[i]
       /\ \A i \in inflightAtUnmount' :
             (pc'[i] = "done" /\ fnObserves'[i])
                => /\ IsFailure(outcome'[i])
                   /\ pc[i] = "inflight" => result' = outcome'[i]]_vars

C6_Witness ==
    \E i \in inflightAtUnmount :
        /\ fnObserves[i]
        /\ reason[i] = ComponentUnmounted
        /\ pc[i] = "done"
        /\ IsFailure(outcome[i])
        /\ result = outcome[i]

\* C7: when the fn of a call that no later invocation superseded resolves with
\* a Result R, `result` becomes R, `loading` becomes false and the promise
\* returned by call resolves to R.
C7_SettleStoresResult ==
    [][\A i \in Calls :
          (pc[i] = "inflight" /\ pc'[i] = "done" /\ IsResult(outcome'[i]) /\ ~Superseded(i))
             => /\ result' = outcome'[i]
                /\ loading' = FALSE
                /\ returned'[i] = outcome'[i]]_vars

C7_Witness ==
    \E i \in Calls :
        /\ pc[i] = "done"
        /\ ~Superseded(i)
        /\ IsResult(outcome[i])
        /\ outcome[i].ok
        /\ result = outcome[i]
        /\ returned[i] = outcome[i]
        /\ ~loading

\* a status in the 2xx range
SuccessStatus(status) == status \in 200..299

\* `json` is an object holding every key of `schema` with the type it asks for
Validates(schema, json) ==
    /\ IsObject(json)
    /\ \A f \in DOMAIN schema : f \in DOMAIN json /\ json[f].type = schema[f]

\* the keys of `json` that the two schemas name
Merged(left, right, json) == [f \in DOMAIN left \cup DOMAIN right |-> json[f]]

\* the keys of the two schemas that `json` lacks or holds with another type
Offending(left, right, json) ==
    IF ~IsObject(json)
    THEN {<<"", "invalid_type">>}
    ELSE {<<f, "invalid_type">> :
              f \in {g \in DOMAIN left \cup DOMAIN right :
                        \/ g \notin DOMAIN json
                        \/ g \in DOMAIN left /\ json[g].type # left[g]
                        \/ g \in DOMAIN right /\ json[g].type # right[g]}}

\* invocation r has run to its end on a response whose body text was JSON
Decoded(r) == stage[r] = "done" /\ "kind" \in DOMAIN bodyText[r] /\ bodyText[r].kind = "json"

BodyJSON(r) == bodyText[r].value

Config(r) == endpointConfig[endpt[r]]

\* C8: a success status with a JSON body that validates against (response
\* schema AND base schema) yields success carrying the status and the merged body.
C8_SuccessResult ==
    \A r \in Requests :
        (/\ Decoded(r)
         /\ SuccessStatus(response[r].status)
         /\ Validates(Config(r).responseSchema, BodyJSON(r))
         /\ Validates(baseResponseSchema, BodyJSON(r)))
            => apiResult[r] =
                   ok([status |-> response[r].status,
                       body |-> Merged(Config(r).responseSchema, baseResponseSchema,
                                       BodyJSON(r))])

C8_Witness ==
    \E r \in Requests :
        /\ Decoded(r)
        /\ endpt[r] = "health"
        /\ response[r].status = 200
        /\ DOMAIN BodyJSON(r) = Fields
        /\ IsResult(apiResult[r])
        /\ apiResult[r].ok
        /\ DOMAIN apiResult[r].value.body = {"status", "message"}

\* C9: a non-success status with a JSON body that validates against (error
\* schema AND base schema) yields a failure tagged error-response error that
\* carries the status, the status text as message and the validated body.
C9_ErrorResponseResult ==
    \A r \in Requests :
        (/\ Decoded(r)
         /\ ~SuccessStatus(response[r].status)
         /\ Validates(Config(r).errorResponseSchema, BodyJSON(r))
         /\ Validates(baseResponseSchema, BodyJSON(r)))
            => apiResult[r] =
                   err([apiClientErrorType |-> "ErrorResponseAPIError",
                        message |-> response[r].statusText,
                        status |-> response[r].status,
                        body |-> Merged(Config(r).errorResponseSchema, baseResponseSchema,
                                        BodyJSON(r))])

C9_Witness ==
    \E r \in Requests :
        /\ Decoded(r)
        /\ response[r].status = 404
        /\ IsFailure(apiResult[r])
        /\ apiResult[r].error.apiClientErrorType = "ErrorResponseAPIError"
        /\ apiResult[r].error.status = 404
        /\ apiResult[r].error.message = "Not Found"

\* the schema error for `json` failing (schema AND base schema)
SchemaFailure(schema, json) ==
    err([apiClientErrorType |-> "SchemaAPIError",
         schemaErrors |-> Offending(schema, baseResponseSchema, json),
         bodyJSON |-> json])

\* C10: the status is checked before the body shape: a success status whose
\* JSON fails the success schema, and a failure status whose JSON fails the
\* error schema, both yield a schema error carrying the issues and the raw JSON.
C10_StatusBeforeShape ==
    \A r \in Requests :
        /\ (/\ Decoded(r)
            /\ SuccessStatus(response[r].status)
            /\ ~(/\ Validates(Config(r).responseSchema, BodyJSON(r))
                 /\ Validates(baseResponseSchema, BodyJSON(r))))
              => /\ apiResult[r] = SchemaFailure(Config(r).responseSchema, BodyJSON(r))
                 /\ apiResult[r].error.schemaErrors # {}
        /\ (/\ Decoded(r)
            /\ ~SuccessStatus(response[r].status)
            /\ ~(/\ Validates(Config(r).errorResponseSchema, BodyJSON(r))
                 /\ Validates(baseResponseSchema, BodyJSON(r))))
              => /\ apiResult[r] = SchemaFailure(Config(r).errorResponseSchema, BodyJSON(r))
                 /\ apiResult[r].error.schemaErrors # {}

\* a 2xx response whose body has the shape of the error schema but not that of
\* the success schema
C10_Witness ==
    \E r \in Requests :
        /\ Decoded(r)
        /\ endpt[r] = "createProject"
        /\ response[r].status = 200
        /\ Validates(Config(r).errorResponseSchema, BodyJSON(r))
        /\ ~Validates(Config(r).responseSchema, BodyJSON(r))
        /\ IsFailure(apiResult[r])
        /\ apiResult[r].error.apiClientErrorType = "SchemaAPIError"
        /\ apiResult[r].error.bodyJSON = BodyJSON(r)

\* ---- the building of the request
\* invocation r has been made
Invoked(r) == stage[r] # "idle"

\* the encoding invocation r is made with
Encoding(r) == IF declared[r] \in {NotDeclared, Json} THEN Json ELSE declared[r]

\* the keys of `p` whose value is neither a string nor a Blob
NeitherStringNorBlob(p) == {k \in DOMAIN p : p[k].typeof # "string" /\ ~p[k].blob}

ErrorType(r) == apiResult[r].error.apiClientErrorType

\* C11: a multipart invocation with a parameter value that is neither a string
\* nor a Blob yields a failure tagged request-data error that names an offending
\* field, and no request is handed to fetch at any point of the invocation; so
\* does an invocation with an encoding that is neither json nor multipart.
C11_RequestDataError ==
    \A r \in Requests :
        /\ (Invoked(r) /\ Encoding(r) = Multipart /\ NeitherStringNorBlob(params[r]) # {})
              => /\ stage[r] = "done"
                 /\ IsFailure(apiResult[r])
                 /\ ErrorType(r) = "RequestDataError"
                 /\ \E k \in NeitherStringNorBlob(params[r]) :
                        apiResult[r].error.message[2] = k
                 /\ request[r] = NoRequest
        /\ (Invoked(r) /\ Encoding(r) \notin {Json, Multipart})
              => /\ stage[r] = "done"
                 /\ IsFailure(apiResult[r])
                 /\ ErrorType(r) = "RequestDataError"
                 /\ request[r] = NoRequest

\* a multipart invocation whose `file` is a Blob and whose `userId` is a number
C11_Witness ==
    \E r \in Requests :
        /\ stage[r] = "done"
        /\ declared[r] = Multipart
        /\ DOMAIN params[r] = {"userId", "file"}
        /\ params[r]["file"] = BlobValue
        /\ params[r]["userId"] = ZeroValue
        /\ apiResult[r] = err([apiClientErrorType |-> "RequestDataError",
                               message |-> <<"Invalid multipart body data type for param",
                                             "userId">>])
        /\ request[r] = NoRequest

\* the string a path template stands for when every token whose key is present
\* is replaced by the string form of its value, and by "" when the key is missing
StringForm(path, p) ==
    [k \in DOMAIN path |->
        IF path[k].kind = "lit" THEN path[k].text
        ELSE IF path[k].text \in DOMAIN p THEN p[path[k].text].string
        ELSE ""]

\* C12: the path of the request has every {token} replaced by the string form
\* of params[token], falsy values included, and by the empty string exactly
\* when the key is missing.
C12_PathSubstitution ==
    \A r \in Requests :
        request[r] # NoRequest
            => request[r].url = <<"http://localhost:3001/api">>
                                   \o StringForm(Config(r).path, params[r])

\* C13: when fetch rejects, the Result is a failure tagged fetch error that
\* carries what fetch rejected with, unchanged, and neither the body read nor
\* any later stage has run.
C13_FetchErrorCarriesCause ==
    \A r \in Requests :
        (raised[r] # "none" /\ response[r] = NoResponse)
            => /\ stage[r] = "done"
               /\ apiResult[r] = err([apiClientErrorType |-> "FetchAPIError",
                                      fetchError |-> raised[r]])
               /\ bodyText[r] = Undefined

\* fetch rejected because the signal was aborted while it was awaited
C13_Witness ==
    \E r \in Requests :
        /\ stage[r] = "done"
        /\ abortedAt[r] = "fetching"
        /\ raised[r] = "AbortError"
        /\ response[r] = NoResponse
        /\ ErrorType(r) = "FetchAPIError"

ErrorTypes == {"FetchAPIError", "ParseAPIError", "SchemaAPIError", "ErrorResponseAPIError",
               "RequestDataError"}

\* C14: an endpoint callable never raises: whenever an invocation is over, its
\* promise has resolved to a Result that is a success or a failure tagged with
\* one of the five error types.
C14_NeverRaises ==
    \A r \in Requests :
        stage[r] = "done"
            => /\ IsResult(apiResult[r])
               /\ IsFailure(apiResult[r]) => ErrorType(r) \in ErrorTypes

\* C16: the request every endpoint callable hands to fetch carries the
\* transport options the client was made with.
C16_FetchOptionsApplied ==
    \A r \in Requests :
        request[r] # NoRequest => request[r].credentials = fetchOptions.credentials

\* C20 as stated: an invocation that fails because its signal was aborted, at
\* whatever point, yields a failure tagged fetch error.
C20_AbortIsFetchError ==
    \A r \in Requests :
        (stage[r] = "done" /\ abortedAt[r] # "none")
            => IsFailure(apiResult[r]) /\ ErrorType(r) = "FetchAPIError"

\* C20: an invocation whose signal is aborted while fetch is awaited yields a
\* failure tagged fetch error; one whose signal is aborted while the response
\* body is read yields a failure tagged parse error, without body text; both
\* carry the abort as their cause.
C20_AbortByStage ==
    \A r \in Requests :
        /\ (stage[r] = "done" /\ abortedAt[r] = "fetching")
              => apiResult[r] = err([apiClientErrorType |-> "FetchAPIError",
                                     fetchError |-> "AbortError"])
        /\ (stage[r] = "done" /\ abortedAt[r] = "reading")
              => apiResult[r] = err([apiClientErrorType |-> "ParseAPIError",
                                     parseError |-> "AbortError",
                                     bodyText |-> Undefined])

\* the signal was aborted while the body of a 200 response was being read
C20_Witness ==
    \E r \in Requests :
        /\ stage[r] = "done"
        /\ abortedAt[r] = "reading"
        /\ response[r].status = 200
        /\ ErrorType(r) = "ParseAPIError"

\* ---- the RequestContext
\* the headers `h` of a context as a json request carries them
AsJsonRequest(h) ==
    [n \in DOMAIN h \cup {"Content-Type"} |->
        IF n = "Content-Type" THEN "application/json" ELSE h[n]]

\* C15: the headers a request carries are the ones the shared RequestContext
\* held when the endpoint was invoked, whatever addHeader and removeHeader did
\* to the context since; requests in flight together each carry their own.
C15_HeadersSnapshot ==
    \A f \in Flights :
        flight[f] # "idle" => sent[f].entries = AsJsonRequest(ctxAt[f])

\* two requests in flight together, invoked before and after the auth token was
\* set, and the token removed again since
C15_Witness ==
    /\ flight[1] = "inflight"
    /\ flight[2] = "inflight"
    /\ "X-Auth-Token" \notin DOMAIN sent[1].entries
    /\ "X-Auth-Token" \in DOMAIN sent[2].entries
    /\ sent[2].entries["X-Auth-Token"] = "token"
    /\ headers = NoHeaders

\* ---- lib/result.ts
\* C17: when the function passed to wrap returns X, or the promise of the one
\* passed to wrapAsync resolves to X, the helper yields a success holding X;
\* when it throws or rejects with E, a failure holding E unchanged; neither
\* helper throws or rejects itself.
C17_WrapRoundTrip ==
    (applied \in {"wrap", "wrapAsync"} /\ made # Pending)
        => /\ IsResult(made)
           /\ arg.does \in {"returns", "resolves"} => made = [ok |-> TRUE, value |-> arg.what]
           /\ arg.does \in {"throws", "rejects"} => made = [ok |-> FALSE, error |-> arg.what]

\* a function that throws a failure Result, wrapped
C17_Witness ==
    /\ applied = "wrap"
    /\ arg = [does |-> "throws", what |-> [ok |-> FALSE, error |-> [n |-> 1]]]
    /\ made = [ok |-> FALSE, error |-> [ok |-> FALSE, error |-> [n |-> 1]]]

\* C18: unwrap(ok(v)) returns v and unwrap(err(e)) throws exactly e;
\* unwrap(wrap(f)) returns or throws exactly what f does; and every Result
\* made has exactly one of the success and failure branches.
C18_UnwrapInverse ==
    /\ (applied = "ok" /\ got # NotRun) => got = [does |-> "returns", what |-> arg]
    /\ (applied = "err" /\ got # NotRun) => got = [does |-> "throws", what |-> arg]
    /\ (applied = "wrap" /\ got # NotRun) => got = arg
    /\ IsResult(made)
          => \/ made.ok /\ DOMAIN made = {"ok", "value"}
             \/ ~made.ok /\ DOMAIN made = {"ok", "error"}

\* unwrap(wrap(f)) for an f that throws
C18_Witness ==
    /\ applied = "wrap"
    /\ arg = [does |-> "throws", what |-> [n |-> 2]]
    /\ got = [does |-> "throws", what |-> [n |-> 2]]

\* ---- the hook after the cleanup
\* C19: once the cleanup of the owning component has run, setLoading and
\* setResult are not called any more, not even when a call was in flight at
\* the cleanup and its fn settles afterwards.
\* Stated for the calls that were in flight at the cleanup: their settling
\* writes nothing.
C19_NoWriteAfterTeardown ==
    [][\A i \in inflightAtUnmount :
          (unmounted /\ pc[i] = "inflight" /\ pc'[i] # "inflight")
             => (writeLog' = writeLog /\ loading' = loading /\ result' = result)]_vars

\* ---- the decoding of the body
\* the text response.text() resolved to is no JSON
NotJSON(r) == "kind" \in DOMAIN bodyText[r] /\ bodyText[r].kind # "json"

\* C21: the body is decoded before the status is looked at: when the text of
\* the response cannot be read, and when it is read and is no JSON, the Result
\* is a failure tagged parse error, which carries the text when it was read,
\* whatever the status; no schema error and no error-response error comes of it.
C21_ParseBeforeStatus ==
    \A r \in Requests :
        /\ (stage[r] = "done" /\ response[r] # NoResponse /\ raised[r] # "none")
              => apiResult[r] = err([apiClientErrorType |-> "ParseAPIError",
                                     parseError |-> raised[r],
                                     bodyText |-> Undefined])
        /\ (stage[r] = "done" /\ NotJSON(r))
              => apiResult[r] = err([apiClientErrorType |-> "ParseAPIError",
                                     parseError |-> "SyntaxError",
                                     bodyText |-> bodyText[r]])

\* a 404 response whose body is no JSON
C21_Witness ==
    \E r \in Requests :
        /\ stage[r] = "done"
        /\ NotJSON(r)
        /\ response[r].status = 404
        /\ IsFailure(apiResult[r])
        /\ apiResult[r].error.apiClientErrorType = "ParseAPIError"
        /\ apiResult[r].error.bodyText = bodyText[r]

\* ---- the states of the hook
\* C22: whenever `loading` is true, `result` is undefined.
C22_LoadingMeansNoResult == loading => result = Undefined

\* a call in flight after an earlier call stored its Result
C22_Witness ==
    \E i \in Calls, j \in Calls :
        /\ i < j
        /\ pc[i] = "done"
        /\ IsResult(outcome[i])
        /\ pc[j] = "inflight"
        /\ loading
        /\ result = Undefined

\* ---- abort()
\* the call started last: the one of the last reset written
Resets == {k \in DOMAIN writeLog : writeLog[k][2] = "reset"}

LastStarted ==
    IF Resets = {} THEN 0
    ELSE writeLog[CHOOSE k \in Resets : \A l \in Resets : l <= k][1]

\* a step of abort() that aborts a signal: no call is made, no timer fires,
\* nothing settles and the cleanup does not run
AbortStep ==
    /\ aborted' # aborted
    /\ issued' = issued
    /\ timers' = timers
    /\ pc' = pc
    /\ unmounted' = unmounted

\* C24: abort() aborts the signal of the call started last and of no other, and
\* leaves `loading` and `result` as they are; with no call started, or the last
\* one settled, it changes nothing of the hook or of a call in flight, and a
\* call started later is handed a signal that is not aborted.
C24_AbortFrame ==
    [][/\ AbortStep
          => /\ loading' = loading
             /\ result' = result
             /\ abortControllerRef' = abortControllerRef
             /\ returned' = returned
             /\ writeLog' = writeLog
             /\ LastStarted # 0
             /\ \A k \in Calls : aborted'[k] # aborted[k] => k = LastStarted
       /\ \A i \in Calls :
             (pc[i] # "inflight" /\ pc'[i] = "inflight") => ~aborted'[i]]_vars

\* abort() was used after the call started last had stored its success, and
\* that Result is still there
C24_Witness ==
    \E k \in Calls :
        /\ pc[k] = "done"
        /\ LastStarted = k
        /\ fnObserves[k]
        /\ IsResult(outcome[k]) /\ outcome[k].ok
        /\ aborted[k]
        /\ reason[k] = AbortError
        /\ ~loading
        /\ result = outcome[k]

\* ---- the one-tick error
\* the writes invocation i made
WritesOf(i) == {k \in DOMAIN writeLog : writeLog[k][1] = i}

\* what holds of an invocation that raised the one-tick error
Thrown(i) ==
    /\ returned[i] = Rejected(TickError)
    /\ outcome[i] = Pending
    /\ WritesOf(i) = {}
    /\ abortControllerRef # i
    /\ ~aborted[i]
    /\ prior[i] # 0
    /\ pc[prior[i]] = "inflight" => aborted[prior[i]]
    /\ pc[prior[i]] = "done"
          => /\ \E k \in WritesOf(prior[i]) : writeLog[k][2] = "settle"
             /\ returned[prior[i]] = outcome[prior[i]]

\* C25: an invocation of call that raises the one-tick error never invokes its
\* fn, makes no controller and writes neither `loading` nor `result`; the call
\* that was in flight when it was invoked has its signal aborted and still
\* stores its own outcome when it settles.
C25_TickErrorFrame ==
    [][\A i \in Calls :
          /\ (pc[i] = "tick" /\ pc'[i] = "thrown")
                => /\ loading' = loading
                   /\ result' = result
                   /\ abortControllerRef' = abortControllerRef
                   /\ aborted' = aborted
                   /\ writeLog' = writeLog
          /\ pc'[i] = "thrown" => Thrown(i)']_vars

\* the rejected invocation, and the earlier call's Result stored since
C25_Witness ==
    \E i \in Calls :
        /\ pc[i] = "thrown"
        /\ prior[i] # 0
        /\ pc[prior[i]] = "done"
        /\ IsResult(outcome[prior[i]])
        /\ result = outcome[prior[i]]
        /\ reason[prior[i]] = NewRequestStarted
        /\ ~loading

\* ---- a fn that rejects
\* C26: when fn throws or its promise rejects, `loading` becomes false, `result`
\* stays undefined and the promise returned by call rejects with the same error.
C26_RejectionLeavesIdle ==
    [][\A i \in Calls :
          (pc[i] = "inflight" /\ pc'[i] = "done" /\ IsRejected(outcome'[i]))
             => /\ loading' = FALSE
                /\ result = Undefined
                /\ result' = Undefined
                /\ returned'[i] = [rejected |-> TRUE, error |-> outcome'[i].error]]_vars

\* the second call's fn rejected after the first one's Result had been stored
C26_Witness ==
    \E i \in Calls, j \in Calls :
        /\ i < j
        /\ pc[i] = "done"
        /\ IsResult(outcome[i])
        /\ pc[j] = "done"
        /\ IsRejected(outcome[j])
        /\ returned[j] = outcome[j]
        /\ ~loading
        /\ result = Undefined

\* ---- last write wins
\* the names added and not removed since
Added == {n \in HeaderNames : lastAdded[n] # "none"}

\* the headers `h` of a request without the Content-Type makeApiCall sets
WithoutContentType(h) == [n \in DOMAIN h \ {"Content-Type"} |-> h[n]]

\* C27: after any addHeader and removeHeader, getHeaders maps each name to the
\* value of the last addHeader of that name no removeHeader of it followed, and
\* holds no other name; and what getHeaders returned to a request is a copy
\* that later writes of the context do not alter.
C27_LastWriteWins ==
    /\ DOMAIN getHeaders = Added
    /\ \A n \in Added : getHeaders[n] = lastAdded[n]
    /\ \A f \in Flights :
          flight[f] # "idle"
              => WithoutContentType(sent[f].entries) = WithoutContentType(ctxAt[f])

\* the token was added, a request took its copy, and the token was removed and
\* added again with another value
C27_Witness ==
    \E f \in Flights :
        /\ flight[f] # "idle"
        /\ "X-Auth-Token" \in DOMAIN sent[f].entries
        /\ sent[f].entries["X-Auth-Token"] = "token"
        /\ lastAdded["X-Auth-Token"] = "text/plain"
        /\ getHeaders = [n \in {"X-Auth-Token"} |-> "text/plain"]

\* ---- the headers and the body of the request
\* C28: the request of a json endpoint carries Content-Type: application/json,
\* whatever Content-Type the context held when the endpoint was invoked; the
\* request of a multipart endpoint carries the headers of the context and no
\* Content-Type besides; and the request has no body exactly when the method is GET.
C28_ContentTypeAndBody ==
    \A r \in Requests :
        request[r] # NoRequest
            => /\ Encoding(r) = Json
                     => request[r].headers.entries = AsJsonRequest(headersAt[r])
               /\ Encoding(r) = Multipart
                     => request[r].headers.entries = headersAt[r]
               /\ request[r].body = Undefined <=> Config(r).method = "GET"

\* a POST of a json endpoint on a context that holds another Content-Type
C28_Witness ==
    \E r \in Requests :
        /\ request[r] # NoRequest
        /\ Encoding(r) = Json
        /\ request[r].method = "POST"
        /\ request[r].body # Undefined
        /\ "Content-Type" \in DOMAIN headersAt[r]
        /\ headersAt[r]["Content-Type"] = "text/plain"
        /\ request[r].headers.entries["Content-Type"] = "application/json"

\* ---- abort of a call of useAPICall whose request awaits the network
\* call i of useAPICall is in flight with its signal aborted while the request
\* its fn made awaits fetch
AbortedWhileFetching(i) ==
    /\ pc[i] = "inflight"
    /\ aborted[i]
    /\ CurrentRequest # 0
    /\ stage[CurrentRequest] = "fetching"

\* call i has resolved with a failure Result that the hook holds, loading cleared
SettledWithFailure(i) ==
    /\ pc[i] = "done"
    /\ IsFailure(returned[i])
    /\ ~loading
    /\ result = returned[i]

\* C23: with useAPICall bound to an endpoint callable, once the signal of the
\* call in flight is aborted (by abort() or by teardown) while its request
\* awaits the network, the signal of the request is aborted too, and eventually
\* the call has resolved with a failure Result, loading is false and result
\* holds that failure.
C23_AbortSettlesHook ==
    /\ [](\A i \in Calls :
            AbortedWhileFetching(i) => abortedAt[CurrentRequest] = "fetching")
    /\ \A i \in Calls : AbortedWhileFetching(i) ~> SettledWithFailure(i)

\* a call aborted while its request awaited the network has settled the hook
\* with the FetchAPIError of the abort
C23_Witness ==
    \E i \in Calls :
        /\ SettledWithFailure(i)
        /\ aborted[i]
        /\ returned[i] = err(FetchAPIError("AbortError"))

====
